---------------------------- MODULE Spec2Model ----------------------------
(***************************************************************************)
(* Model of demo-recommender.ipynb: the notebook's code cells run in       *)
(* order, each cell one action.                                            *)
(*                                                                         *)
(*   cell 2 (Prepare)      read the table, drop NaN rows, give users and   *)
(*                         news category codes, build the item-user and    *)
(*                         user-item sparse matrices                       *)
(*   cell 3 (Lookup)       item_lookup; read headlines.csv and give every  *)
(*                         headline the news_id of its news                *)
(*   cell 4 (Fit)          data_conf = item-user * alpha_val; model.fit    *)
(*   cell 5 (SimilarItems) look up the headline of item_id, then           *)
(*                         model.similar_items(item_id, n_similar), then   *)
(*                         a line for every item returned                  *)
(*   cell 6 (Recommend)    the user's reading history, then                *)
(*                         model.recommend(user_id, sparse_user_item)      *)
(*                                                                         *)
(* The cells call pandas, scipy.sparse.csr_matrix, numpy indexing and the  *)
(* implicit library's AlternatingLeastSquares (the 0.3 API the notebook    *)
(* uses: fit(item_users), similar_items(itemid, N), recommend(userid,      *)
(* user_items, N=10)).  Each call is modelled by what that call does.      *)
(* The numerical solver inside fit is compiled library code and is not     *)
(* modelled: Fit leaves factor matrices of the right shape (one row of     *)
(* `factors` columns per user and per item) whose rows are any vectors of  *)
(* ItemVecs / UserVecs (the initialisation is random and unseeded in the   *)
(* notebook).  What the queries do with the factor matrices is modelled    *)
(* in full, so a property of a query holds for the rows the model draws    *)
(* from; no property below depends on which rows fit leaves.               *)
(*                                                                         *)
(* A table cell is <<>> when missing (NaN) and <<v>> when it holds v.      *)
(* A sparse matrix is [shape |-> <<rows, cols>>, stored |-> f] where f     *)
(* maps each stored <<row, col>> to its value; an entry that is not stored *)
(* reads 0, and a stored entry may hold 0.                                 *)
(* A factor row holds float32 values that are whole quarters; it is kept   *)
(* as the tuple of its numerators.  A dot product of two rows is a sum of  *)
(* sixteenths, which float32 holds exactly in whatever order it is summed. *)
(* A score is a float32 value [s, m, e]: sign s (0 for zero) and, when not *)
(* zero, the 24-bit significand 2^23 <= m < 2^24 and the exponent e, the   *)
(* value being s * m * 2^e.  The square root in item_norms and the two     *)
(* divisions in similar_items are carried out bit by bit and rounded to    *)
(* nearest, ties to even, as numpy does on float32 operands.               *)
(***************************************************************************)
EXTENDS Integers, Sequences, FiniteSets, TLC

VARIABLES raw_data,          \* the table read from data/data.csv
          headlines_csv,     \* the news column of data/headlines.csv
          data,              \* the table after dropna, with user_id / news_id
          sparse_item_user,  \* item x user matrix
          sparse_user_item,  \* user x item matrix
          item_lookup,       \* the distinct (news_id, news) pairs of data
          headlines,         \* the headline rows with their news_id
          data_conf,         \* item x user matrix scaled by alpha_val
          model,             \* [user_factors, item_factors] once fitted
          names,             \* the notebook variables that are bound
          pc,                \* "start", "prepared", "indexed", "trained", "failed"
          call               \* the query cell that ran: its inputs (item_id /
                             \* user_id, N), how far it got and its outcome,
                             \* the score of every item, and what the cell bound

vars == <<raw_data, headlines_csv, data, sparse_item_user, sparse_user_item,
          item_lookup, headlines, data_conf, model, names, pc, call>>

-----------------------------------------------------------------------------
(* Bounds and input alphabets *)

MaxRecs == 2       \* rows of a table cell 2 is run on (Spec)
MaxK == 2          \* largest number of results a query asks for
MaxRows == 3       \* rows of a table the queries are run on (SpecQuery)
MaxHeadlines == 1  \* rows of headlines.csv
MaxFactor == 2     \* largest multiple of the unit row among the factor rows
alpha_val == 40
factors == 20

UserKeys == {11, 25}
NewsKeys == {3, 7, 8}
ReadVals == {<<>>, <<-1>>, <<1>>}

\* a row of `factors` float32 columns, in quarters: a/4 in the first column,
\* b/4 in every other
Vec(a, b) == [k \in 1..factors |-> IF k = 1 THEN a ELSE b]

\* Rows that fit may leave in the factor matrices.  Item rows: the multiples
\* 1..MaxFactor of the unit row (rows parallel to each other and of
\* different lengths), a row at an acute angle to these (cosine 0.979) and
\* one with negative components at an obtuse angle to both (cosines -0.79,
\* -0.65).  User rows: first column -MaxFactor or MaxFactor; they give the
\* item rows positive and negative scores and rank them differently.
ItemVecs == {Vec(a, a) : a \in 1..MaxFactor} \cup {Vec(2, 1), Vec(2, -1)}
UserVecs == {Vec(a, 1) : a \in {-MaxFactor, MaxFactor}}

RawRecords == [user : {<<u>> : u \in UserKeys},
               news : {<<n>> : n \in NewsKeys},
               read : ReadVals]

RawInputs == UNION {[1..n -> RawRecords] : n \in 0..MaxRecs}

\* headlines.csv: at most MaxHeadlines rows, each naming a news key
HeadlineInputs(keys) == UNION {[1..n -> keys] : n \in 0..MaxHeadlines}

-----------------------------------------------------------------------------
(* Cell 2: load and prepare *)

isna(c) == c = <<>>

\* dropna as it would be if rows with a negative signal were removed too
dropna_rejecting(rows) ==
  SelectSeq(rows, LAMBDA r : ~isna(r.user) /\ ~isna(r.news) /\ ~isna(r.read)
                             /\ r.read[1] >= 0)

\* data = raw_data.dropna(): rows with a missing cell are removed
dropna(rows) ==
  SelectSeq(rows, LAMBDA r : ~isna(r.user) /\ ~isna(r.news) /\ ~isna(r.read))

\* astype("category").cat.codes: the rank of the value among the sorted
\* distinct values of the column
cat_code(v, column) == Cardinality({w \in column : w < v})

ColumnOf(rows, f) == {rows[k][f][1] : k \in 1..Len(rows)}

with_ids(rows) ==
  [k \in 1..Len(rows) |->
     [user    |-> rows[k].user[1],
      news    |-> rows[k].news[1],
      read    |-> rows[k].read[1],
      user_id |-> cat_code(rows[k].user[1], ColumnOf(rows, "user")),
      news_id |-> cat_code(rows[k].news[1], ColumnOf(rows, "news"))]]

RECURSIVE SumWhere(_, _, _, _, _)
SumWhere(rows, rf, cf, p, k) ==
  IF k = 0 THEN 0
  ELSE SumWhere(rows, rf, cf, p, k - 1)
       + (IF <<rows[k][rf], rows[k][cf]>> = p THEN rows[k].read ELSE 0)

MaxOf(S) == CHOOSE m \in S : \A x \in S : x <= m

EmptyMatrix == [shape |-> <<0, 0>>, stored |-> <<>>]

\* sparse.csr_matrix((read, (rows[rf], rows[cf]))): one stored entry per
\* distinct (row, col) pair, duplicates summed, shape from the largest index
csr_matrix(rows, rf, cf) ==
  LET pairs == {<<rows[k][rf], rows[k][cf]>> : k \in 1..Len(rows)}
  IN  [shape  |-> <<MaxOf({p[1] : p \in pairs}) + 1,
                    MaxOf({p[2] : p \in pairs}) + 1>>,
       stored |-> [p \in pairs |-> SumWhere(rows, rf, cf, p, Len(rows))]]

Entry(M, r, c) ==
  IF <<r, c>> \in DOMAIN M.stored THEN M.stored[<<r, c>>] ELSE 0

\* the item-user matrix as it would be with the index columns not swapped
build_item_user_unswapped(rows) == csr_matrix(rows, "user_id", "news_id")

build_item_user(rows) == csr_matrix(rows, "news_id", "user_id")
build_user_item(rows) == csr_matrix(rows, "user_id", "news_id")

NoRecommendations == [news_id |-> <<>>, score |-> <<>>]
NoCall == [op |-> "none", id |-> 0, N |-> 0, stage |-> "none", outcome |-> "none", scores |-> <<>>,
           result |-> <<>>, printed |-> <<>>, consumed_idx |-> <<>>,
           recommendations |-> NoRecommendations]
NoModel == [user_factors |-> <<>>, item_factors |-> <<>>]

Prepare ==
  /\ pc = "start"
  /\ LET d == with_ids(dropna(raw_data))
     IN  /\ data' = d
         /\ IF Len(d) = 0
            THEN \* csr_matrix cannot infer a shape from empty index arrays
                 /\ pc' = "failed"
                 /\ names' = names \cup {"data"}
                 /\ UNCHANGED <<sparse_item_user, sparse_user_item>>
            ELSE /\ pc' = "prepared"
                 /\ names' = names \cup {"data", "sparse_item_user", "sparse_user_item"}
                 /\ sparse_item_user' = build_item_user(d)
                 /\ sparse_user_item' = build_user_item(d)
  /\ UNCHANGED <<raw_data, headlines_csv, item_lookup, headlines, data_conf, model, call>>

-----------------------------------------------------------------------------
(* Cell 3: item_lookup and headlines *)

\* data[['news_id', 'news']].drop_duplicates()
drop_duplicates(rows) == {<<rows[k].news_id, rows[k].news>> : k \in 1..Len(rows)}

\* item_lookup[item_lookup.news == x].news_id: the ids of the rows with news x
ids_of(lookup, x) == {p[1] : p \in {q \in lookup : q[2] = x}}

Lookup ==
  /\ pc = "prepared"
  /\ item_lookup' = drop_duplicates(data)
  /\ IF \E k \in 1..Len(headlines_csv) : ids_of(item_lookup', headlines_csv[k]) = {}
     THEN \* .iloc[0] of an empty selection: IndexError, no news_id column
          /\ headlines' = [k \in 1..Len(headlines_csv) |->
                             [news |-> headlines_csv[k], news_id |-> <<>>]]
          /\ pc' = "failed"
     ELSE /\ headlines' = [k \in 1..Len(headlines_csv) |->
                             [news    |-> headlines_csv[k],
                              news_id |-> <<CHOOSE i \in ids_of(item_lookup', headlines_csv[k]) : TRUE>>]]
          /\ pc' = "indexed"
  /\ names' = names \cup {"item_lookup", "headlines"}
  /\ UNCHANGED <<raw_data, headlines_csv, data, sparse_item_user, sparse_user_item,
                 data_conf, model, call>>

-----------------------------------------------------------------------------
(* Cell 4: confidence scaling and model.fit *)

\* sparse_item_user * alpha_val: every stored value scaled, pattern kept
scale(M, a) == [shape |-> M.shape, stored |-> [p \in DOMAIN M.stored |-> M.stored[p] * a]]

\* What fit can leave: Ciu.shape is (items, users); user_factors has one row
\* per user and item_factors one row per item, each of `factors` columns.
\* fit raises nothing on the matrix cell 2 builds (it has a row and a column
\* and finite values).  The values come out of the library's solver from an
\* unseeded random start, so the rows are left open: any rows of the alphabets.
FitOutcomes(Ciu) ==
  [user_factors : [0..(Ciu.shape[2] - 1) -> UserVecs],
   item_factors : [0..(Ciu.shape[1] - 1) -> ItemVecs]]

Fit ==
  /\ pc = "indexed"
  /\ data_conf' = scale(sparse_item_user, alpha_val)
  /\ model' \in FitOutcomes(data_conf')
  /\ names' = names \cup {"alpha_val", "data_conf", "model"}
  /\ pc' = "trained"
  /\ UNCHANGED <<raw_data, headlines_csv, data, sparse_item_user, sparse_user_item,
                 item_lookup, headlines, call>>

-----------------------------------------------------------------------------
(* Scores and orderings used by the queries.  A query reads the model and   *)
(* the matrices and writes only its own result, so a later query finds the *)
(* state an earlier one found; a run is followed up to its first query.    *)

\* the dot product of two rows, the sum over their `factors` columns
dot(a, b) ==
    a[1] * b[1] + a[2] * b[2] + a[3] * b[3] + a[4] * b[4] + a[5] * b[5]
  + a[6] * b[6] + a[7] * b[7] + a[8] * b[8] + a[9] * b[9] + a[10] * b[10]
  + a[11] * b[11] + a[12] * b[12] + a[13] * b[13] + a[14] * b[14] + a[15] * b[15]
  + a[16] * b[16] + a[17] * b[17] + a[18] * b[18] + a[19] * b[19] + a[20] * b[20]
norm2(a) == dot(a, a)
Sgn(x) == IF x > 0 THEN 1 ELSE IF x < 0 THEN -1 ELSE 0
Abs(x) == IF x < 0 THEN -x ELSE x

Zero32 == [s |-> 0, m |-> 0, e |-> 0]

\* the float32 value n * 2^k of an integer n of at most 24 bits
RECURSIVE normalised(_, _)
normalised(m, e) == IF m < 2^23 THEN normalised(2 * m, e - 1) ELSE [m |-> m, e |-> e]
float32(n, k) ==
  IF n = 0 THEN Zero32
  ELSE LET p == normalised(Abs(n), k) IN [s |-> Sgn(n), m |-> p.m, e |-> p.e]

\* s * q * 2^e rounded to 24 bits, q holding 25 bits of the result and
\* `sticky` telling whether bits below them are set: to nearest, ties to even
round_even(s, q, sticky, e) ==
  LET half == q \div 2
      up   == (q % 2 = 1) /\ (sticky \/ half % 2 = 1)
      m    == IF up THEN half + 1 ELSE half
  IN  IF m = 2^24 THEN [s |-> s, m |-> 2^23, e |-> e + 2]
      ELSE [s |-> s, m |-> m, e |-> e + 1]

\* `steps` more bits of a quotient by d, from the quotient q and remainder r
RECURSIVE long_division(_, _, _, _)
long_division(q, r, d, steps) ==
  IF steps = 0 THEN [q |-> q, r |-> r]
  ELSE long_division(2 * q + (2 * r) \div d, (2 * r) % d, d, steps - 1)

\* a / b on float32 operands, b not zero
f32_div(a, b) ==
  IF a.s = 0 THEN Zero32
  ELSE LET steps == IF a.m >= b.m THEN 24 ELSE 25
           qr    == long_division(a.m \div b.m, a.m % b.m, b.m, steps)
       IN  round_even(a.s * b.s, qr.q, qr.r # 0, a.e - b.e - steps)

\* the square root of n bit by bit, two bits of n (pair i, then pair i - 1,
\* then zeros) for each bit of the root r, until the root has 25 bits
RECURSIVE root_digits(_, _, _, _)
root_digits(n, i, r, rem) ==
  IF r >= 2^24 THEN [q |-> r, r |-> rem, i |-> i]
  ELSE LET c == 4 * rem + (IF i >= 0 THEN (n \div 4^i) % 4 ELSE 0)
           t == 4 * r + 1
       IN  IF c >= t THEN root_digits(n, i - 1, 2 * r + 1, c - t)
           ELSE root_digits(n, i - 1, 2 * r, c)

\* np.sqrt on a float32 operand, a not negative
f32_sqrt(a) ==
  IF a.s = 0 THEN Zero32
  ELSE LET odd == a.e % 2 = 1
           n   == IF odd THEN 2 * a.m ELSE a.m
           e   == IF odd THEN a.e - 1 ELSE a.e
           qr  == root_digits(n, 12, 0, 0)
       IN  round_even(1, qr.q, qr.r # 0, (e \div 2) + qr.i + 1)

\* a < b and a == b on float32 values
Less(a, b) ==
  IF a.s # b.s THEN a.s < b.s
  ELSE IF a.s = 0 THEN FALSE
  ELSE LET below == a.e < b.e \/ (a.e = b.e /\ a.m < b.m)
           above == b.e < a.e \/ (a.e = b.e /\ b.m < a.m)
       IN  IF a.s = 1 THEN below ELSE above
Same(a, b) == a = b

\* The float32 arithmetic on the rows that can occur, carried out once: a
\* function whose values are all computed when it is made.
Computed(f) == f @@ f
Norm2s == {norm2(v) : v \in ItemVecs}
Dots == {dot(a, b) : a \in ItemVecs, b \in ItemVecs \cup UserVecs}

\* a dot product (sixteenths) as the float32 value it is
dot32 == Computed([d \in Dots |-> float32(d, -4)])

\* np.linalg.norm of a row with squared length s; item_norms replaces a
\* norm of 0 by 1e-10
norm32 ==
  Computed([s \in Norm2s |->
     IF s = 0 THEN [s |-> 1, m |-> 14411519, e |-> -57] ELSE f32_sqrt(dot32[s])])

\* dot / norm: p = <<dot product, squared length of the row>>
quotient32 ==
  Computed([p \in Dots \X Norm2s |-> f32_div(dot32[p[1]], norm32[p[2]])])

\* (dot / norm) / norm of the query row: p = <<dot product, squared length
\* of the row, squared length of the query row>>
cosine32 ==
  Computed([p \in Dots \X Norm2s \X Norm2s |->
     f32_div(quotient32[<<p[1], p[2]>>], norm32[p[3]])])

\* numpy / scipy indexing: -n..-1 address rows from the end, anything outside
\* -n..n-1 raises IndexError
InBounds(id, n) == -n <= id /\ id < n
PyIndex(id, n) == IF id < 0 THEN id + n ELSE id

Perms(S) == {f \in [1..Cardinality(S) -> S] : \A a, b \in DOMAIN f : a # b => f[a] # f[b]}

\* np.argpartition(scores, -c)[-c:]: the indices of c largest scores; which of
\* several equal scores at the cut are taken is up to the selection
\* algorithm.  A slice [-0:] is the whole array.
argpartition_top(scores, c) ==
  IF c = 0 THEN {DOMAIN scores}
  ELSE {S \in SUBSET DOMAIN scores :
          /\ Cardinality(S) = c
          /\ \A i \in S : \A j \in (DOMAIN scores) \ S : ~Less(scores[i], scores[j])}

\* the selected ids as they would be without the sort
sorted_not(S, scores) == Perms(S)

\* sorted(zip(ids, scores[ids]), key=lambda x: -x[1]) over ids that come in
\* the order argpartition left them: descending, equal scores in that order
sorted_desc(S, scores) ==
  {f \in Perms(S) : \A a, b \in DOMAIN f : a < b => ~Less(scores[f[a]], scores[f[b]])}

\* sorted(enumerate(scores), key=lambda x: -x[1]): the sort is stable, so
\* equal scores stay in ascending index order
sorted_enumerate(scores) ==
  CHOOSE f \in Perms(DOMAIN scores) :
    \A a, b \in DOMAIN f : a < b =>
      \/ Less(scores[f[b]], scores[f[a]])
      \/ (Same(scores[f[a]], scores[f[b]]) /\ f[a] < f[b])

RECURSIVE Without(_, _)
Without(seq, S) ==
  IF seq = <<>> THEN <<>>
  ELSE IF Head(seq) \in S THEN Without(Tail(seq), S)
       ELSE <<Head(seq)>> \o Without(Tail(seq), S)

Take(seq, n) == SubSeq(seq, 1, IF n < Len(seq) THEN n ELSE Len(seq))

Pairs(ids, score) == [k \in 1..Len(ids) |-> [item |-> ids[k], score |-> score[ids[k]]]]

-----------------------------------------------------------------------------
(* Cell 5: the headline of item_id, then model.similar_items(item_id, N) *)

\* a numpy array over 0..n-1: its values are computed once, when it is made
RECURSIVE values_upto(_, _)
values_upto(f, n) == IF n = 0 THEN <<>> ELSE Append(values_upto(f, n - 1), f[n - 1])
ndarray(f) ==
  LET v == values_upto(f, Cardinality(DOMAIN f)) IN [j \in DOMAIN f |-> v[j + 1]]

\* headlines[headlines.news_id == item_id] has a row
has_headline(h, item_id) == \E k \in 1..Len(h) : h[k].news_id = <<item_id>>

\* scores = item_factors.dot(item_factors[itemid]) / item_norms
item_scores(Y, x) ==
  ndarray([j \in DOMAIN Y |-> quotient32[<<dot(Y[j], Y[x]), norm2(Y[j])>>]])

\* scores / item_norms[itemid]
similarity(Y, x) ==
  ndarray([j \in DOMAIN Y |-> cosine32[<<dot(Y[j], Y[x]), norm2(Y[j]), norm2(Y[x])>>]])

\* best = np.argpartition(scores, -N)[-N:];
\* sorted(zip(best, scores[best] / item_norms[itemid]), key=lambda x: -x[1])
similar_items(scores, sim, N) ==
  UNION {{Pairs(best, sim) : best \in sorted_desc(S, sim)} :
           S \in argpartition_top(scores, N)}

\* for item in similar: the line printed for it, with the item's headline
\* when idx is in headlines.news_id.values and '[HEADLINES NOT FOUND]' when not
printed_lines(h, r) ==
  [k \in DOMAIN r |-> [idx |-> r[k].item, headline_found |-> has_headline(h, r[k].item)]]

\* stage is how far the cell got: "headline" when the print of line 255
\* raised and model.similar_items was never called, "call" when
\* model.similar_items was called and raised, "end" when the cell ran through
SimilarCall(item_id, N, stage, outcome, sim, r) ==
  [op |-> "similar_items", id |-> item_id, N |-> N, stage |-> stage, outcome |-> outcome,
   scores |-> sim, result |-> r, printed |-> printed_lines(headlines, r),
   consumed_idx |-> <<>>, recommendations |-> NoRecommendations]

SimilarItems ==
  /\ pc = "trained"
  /\ call = NoCall
  /\ LET Y == model.item_factors
         n == Cardinality(DOMAIN Y)
     IN  \E item_id \in (-1)..n, N \in 0..MaxK :
           IF ~has_headline(headlines, item_id)
           THEN \* line 255, .headline.iloc[0] of an empty selection: IndexError
                call' = SimilarCall(item_id, N, "headline", "IndexError", <<>>, <<>>)
           ELSE IF N > n
           THEN \* line 256, np.argpartition(scores, -N): kth out of bounds
                call' = SimilarCall(item_id, N, "call", "ValueError", <<>>, <<>>)
           ELSE LET sim == similarity(Y, item_id)
                IN  \E r \in similar_items(item_scores(Y, item_id), sim, N) :
                      call' = SimilarCall(item_id, N, "end", "ok", sim, r)
  /\ UNCHANGED <<raw_data, headlines_csv, data, sparse_item_user, sparse_user_item,
                 item_lookup, headlines, data_conf, model, names, pc>>

-----------------------------------------------------------------------------
(* Cell 6: the reading history, then model.recommend(user_id, sparse_user_item) *)

Digits == <<"0", "1", "2", "3", "4", "5", "6", "7", "8", "9">>

\* astype(str) of a non-negative integer: its decimal digits
RECURSIVE str(_)
str(i) == IF i < 10 THEN Digits[i + 1] ELSE str(i \div 10) \o Digits[(i % 10) + 1]

Ascending(S) == CHOOSE f \in Perms(S) : \A a, b \in DOMAIN f : a < b => f[a] < f[b]

\* sparse_user_item[user_id, :].nonzero()[1].astype(str): the columns of the
\* row whose stored value is not 0, in column order, as strings
consumed(user_items, u) ==
  LET cols == Ascending({p[2] : p \in {q \in DOMAIN user_items.stored :
                                        q[1] = u /\ user_items.stored[q] # 0}})
  IN  [k \in DOMAIN cols |-> str(cols[k])]

\* the liked set as it would be if the user's row were not consulted
liked_items_none(user_items, u) == {}

\* set(user_items[userid].indices): the columns stored in the user's row
liked_items(user_items, u) == {p[2] : p \in {q \in DOMAIN user_items.stored : q[1] = u}}

\* the count as it would be without room for the liked items
candidate_count_only_N(N, liked) == N

\* count = N + len(liked)
candidate_count(N, liked) == N + Cardinality(liked)

\* scores = item_factors.dot(user_factors[userid])
user_scores(m, u) ==
  ndarray([i \in DOMAIN m.item_factors |-> dot32[dot(m.item_factors[i], m.user_factors[u])]])

recommend(scores, u, user_items, N) ==
  LET liked  == liked_items(user_items, u)
      count  == candidate_count(N, liked)
      bests  == IF count < Cardinality(DOMAIN scores)
                THEN UNION {sorted_desc(S, scores) : S \in argpartition_top(scores, count)}
                ELSE {sorted_enumerate(scores)}
  IN  {Pairs(Take(Without(best, liked), N), scores) : best \in bests}

\* recommendations = pd.DataFrame({'news_id': items, 'score': scores})
frame(r) == [news_id |-> [k \in DOMAIN r |-> r[k].item],
             score   |-> [k \in DOMAIN r |-> r[k].score]]

Recommend ==
  /\ pc = "trained"
  /\ call = NoCall
  /\ LET n == Cardinality(DOMAIN model.user_factors)
     IN  \E user_id \in (-(n + 1))..n, N \in 0..MaxK :
           IF ~InBounds(user_id, n)
           THEN \* line 321, sparse_user_item[user_id, :]: row index out of
                \* range, model.recommend is never called
                call' = [op |-> "recommend", id |-> user_id, N |-> N,
                         stage |-> "history", outcome |-> "IndexError", scores |-> <<>>, result |-> <<>>,
                         printed |-> <<>>, consumed_idx |-> <<>>,
                         recommendations |-> NoRecommendations]
           ELSE LET u      == PyIndex(user_id, n)
                    scores == user_scores(model, u)
                IN  \E r \in recommend(scores, u, sparse_user_item, N) :
                      call' = [op |-> "recommend", id |-> user_id, N |-> N,
                               stage |-> "end", outcome |-> "ok",
                               scores |-> scores, result |-> r,
                               printed |-> <<>>,
                               consumed_idx |-> consumed(sparse_user_item, u),
                               recommendations |-> frame(r)]
  /\ UNCHANGED <<raw_data, headlines_csv, data, sparse_item_user, sparse_user_item,
                 item_lookup, headlines, data_conf, model, names, pc>>

-----------------------------------------------------------------------------
(* Specifications *)

Init ==
  /\ raw_data \in RawInputs
  /\ headlines_csv \in HeadlineInputs(NewsKeys)
  /\ data = <<>>
  /\ sparse_item_user = EmptyMatrix
  /\ sparse_user_item = EmptyMatrix
  /\ item_lookup = {}
  /\ headlines = <<>>
  /\ data_conf = EmptyMatrix
  /\ model = NoModel
  /\ names = {"raw_data"}
  /\ pc = "start"
  /\ call = NoCall

\* Cells 2, 3 and 4 on every table of at most MaxRecs rows
Next == Prepare \/ Lookup \/ Fit

Spec == Init /\ [][Next]_vars

\* Tables with one row per (user, news) pair, rows in key order, no NaN:
\* every set of at most MaxRows pairs, read 0 or 1.  The keys reach the
\* queries only through their category codes, so the tables use the
\* smallest keys.
RECURSIVE RowsOf(_)
RowsOf(f) ==
  IF DOMAIN f = {} THEN <<>>
  ELSE LET p == CHOOSE q \in DOMAIN f :
                  \A r \in DOMAIN f : q[1] < r[1] \/ (q[1] = r[1] /\ q[2] <= r[2])
       IN  <<[user |-> <<p[1]>>, news |-> <<p[2]>>, read |-> <<f[p]>>]>>
           \o RowsOf([q \in (DOMAIN f) \ {p} |-> f[q]])

Smallest(S, keys) == \A k \in S : \A w \in keys : w < k => w \in S

QueryInputs ==
  {RowsOf(f) : f \in UNION {[P -> {0, 1}] : P \in {Q \in SUBSET (UserKeys \X NewsKeys) :
       /\ Q # {} /\ Cardinality(Q) <= MaxRows
       /\ Smallest({q[1] : q \in Q}, UserKeys)
       /\ Smallest({q[2] : q \in Q}, NewsKeys)}}}

\* The state cells 2, 3 and 4 leave on a table of QueryInputs and a
\* headlines.csv whose news all occur in the table
InitTrained ==
  /\ raw_data \in QueryInputs
  /\ data = with_ids(dropna(raw_data))
  /\ sparse_item_user = build_item_user(data)
  /\ sparse_user_item = build_user_item(data)
  /\ item_lookup = drop_duplicates(data)
  /\ headlines_csv \in HeadlineInputs(ColumnOf(raw_data, "news"))
  /\ headlines = [k \in 1..Len(headlines_csv) |->
                    [news    |-> headlines_csv[k],
                     news_id |-> <<CHOOSE i \in ids_of(item_lookup, headlines_csv[k]) : TRUE>>]]
  /\ data_conf = scale(sparse_item_user, alpha_val)
  /\ model \in FitOutcomes(data_conf)
  /\ names = {"raw_data", "data", "sparse_item_user", "sparse_user_item",
              "item_lookup", "headlines", "alpha_val", "data_conf", "model"}
  /\ pc = "trained"
  /\ call = NoCall

NextQuery == SimilarItems \/ Recommend

SpecQuery == InitTrained /\ [][NextQuery]_vars
-----------------------------------------------------------------------------
(* Properties of cells 2, 3 and 4, checked under Spec *)

Built == "sparse_user_item" \in names
HasNaN(r) == isna(r.user) \/ isna(r.news) \/ isna(r.read)
KeptRows == {j \in 1..Len(raw_data) : ~HasNaN(raw_data[j])}

\* the signals of the first j rows that hold the keys a and b and a signal
RECURSIVE RawSum(_, _, _)
RawSum(a, b, j) ==
  IF j = 0 THEN 0
  ELSE RawSum(a, b, j - 1)
       + (IF raw_data[j].user = <<a>> /\ raw_data[j].news = <<b>> /\ ~isna(raw_data[j].read)
          THEN raw_data[j].read[1] ELSE 0)

\* the signals of the table's rows whose keys were given the ids (u, i)
SignalSum(u, i) ==
  LET K == {k \in 1..Len(data) : data[k].user_id = u /\ data[k].news_id = i}
  IN  IF K = {} THEN 0
      ELSE LET k == CHOOSE k \in K : TRUE
           IN  RawSum(data[k].user, data[k].news, Len(raw_data))

\* C5: once the matrices are built, user_item[u][i] = item_user[i][u] for
\* every (u, i), and the common value is the sum of the signals of all rows
\* with that (user, item) pair (0 when there is none), repeated pairs included.
C5_TransposeAndSum ==
  Built =>
    /\ sparse_item_user.shape = <<sparse_user_item.shape[2], sparse_user_item.shape[1]>>
    /\ \A u \in 0..(sparse_user_item.shape[1] - 1), i \in 0..(sparse_user_item.shape[2] - 1) :
         /\ Entry(sparse_user_item, u, i) = Entry(sparse_item_user, i, u)
         /\ Entry(sparse_user_item, u, i) = SignalSum(u, i)

\* C5 witness: a table in which one (user, item) pair repeats and another
\* pair is absent has been built; the repeated pair holds the sum 2.
C5_Witness ==
  /\ Built
  /\ \E j, k \in KeptRows :
       /\ j < k
       /\ raw_data[j].user = raw_data[k].user /\ raw_data[j].news = raw_data[k].news
       /\ raw_data[j].read = <<1>> /\ raw_data[k].read = <<1>>
  /\ \E p \in DOMAIN sparse_user_item.stored :
       sparse_user_item.stored[p] = 2 /\ Entry(sparse_item_user, p[2], p[1]) = 2

InvalidSignal(r) == isna(r.read) \/ r.read[1] < 0
MatrixNames == {"sparse_item_user", "sparse_user_item", "data_conf", "model"}

\* C7 as claimed: a table with a NaN or negative signal never gets a matrix
\* or a factor matrix (building fails first).
C7_Original ==
  (\E j \in 1..Len(raw_data) : InvalidSignal(raw_data[j])) =>
     (~Built /\ names \cap MatrixNames = {})

RECURSIVE StoredTotal(_, _)
StoredTotal(M, P) ==
  IF P = {} THEN 0
  ELSE LET p == CHOOSE q \in P : TRUE IN M.stored[p] + StoredTotal(M, P \ {p})

RECURSIVE KeptTotal(_)
KeptTotal(j) ==
  IF j = 0 THEN 0
  ELSE KeptTotal(j - 1) + (IF HasNaN(raw_data[j]) THEN 0 ELSE raw_data[j].read[1])

\* the news of some headline is not a news of the kept rows
HeadlineUnknown ==
  \E k \in 1..Len(headlines_csv) :
     \A j \in KeptRows : raw_data[j].news # <<headlines_csv[k]>>

\* C7 as amended: a row with a NaN cell is dropped without an error and the
\* other rows are built; a negative signal is not rejected, it is summed into
\* the matrices like any other; the ids given to the builder are category
\* codes and never negative.  Building fails only when no row is left, and
\* then no matrix and no factor matrix exists; the one other failure before
\* training is a headline whose news is not in the table.
C7_DropNotReject ==
  LET kept  == KeptRows
      total == KeptTotal(Len(raw_data))
  IN  /\ pc # "start" => (Built <=> kept # {})
      /\ pc = "failed" <=> (pc # "start" /\ (kept = {} \/ (pc # "prepared" /\ HeadlineUnknown)))
      /\ (pc = "failed" /\ kept = {}) =>
           /\ names \cap MatrixNames = {}
           /\ sparse_item_user = EmptyMatrix /\ sparse_user_item = EmptyMatrix
      /\ pc = "failed" => ("model" \notin names /\ model = NoModel)
      /\ pc # "start" =>
           /\ Len(data) = Cardinality(kept)
           /\ \A k \in 1..Len(data) : data[k].user_id >= 0 /\ data[k].news_id >= 0
      /\ Built =>
           /\ StoredTotal(sparse_user_item, DOMAIN sparse_user_item.stored) = total
           /\ StoredTotal(sparse_item_user, DOMAIN sparse_item_user.stored) = total

\* C7 witness: a table with a NaN signal and a negative signal has been built
\* and fitted; the negative signal is stored.
C7_Witness ==
  /\ pc = "trained"
  /\ "model" \in names
  /\ \E j \in 1..Len(raw_data) : isna(raw_data[j].read)
  /\ \E j \in KeptRows : raw_data[j].read[1] < 0
  /\ \E p \in DOMAIN sparse_user_item.stored : sparse_user_item.stored[p] < 0

-----------------------------------------------------------------------------
(* Properties of the queries, checked under SpecQuery *)

NumUsers == sparse_user_item.shape[1]
NumItems == sparse_user_item.shape[2]
Items == 0..(NumItems - 1)
RecOk == call.op = "recommend" /\ call.outcome = "ok"
SimOk == call.op = "similar_items" /\ call.outcome = "ok"
Returned == {call.result[k].item : k \in 1..Len(call.result)}
Distinct == \A a, b \in 1..Len(call.result) : a # b => call.result[a].item # call.result[b].item
Min(a, b) == IF a < b THEN a ELSE b

\* C1: no item returned by recommend(u, k), u in range, has a non-zero entry
\* in row u of the user-item matrix passed to the call.
C1_NoConsumedItem ==
  (RecOk /\ 0 <= call.id /\ call.id < NumUsers) =>
     \A k \in 1..Len(call.result) :
        Entry(sparse_user_item, call.id, call.result[k].item) = 0

\* C1 witness: recommend returned items for a user who has consumed one.
C1_Witness ==
  /\ RecOk /\ 0 <= call.id /\ call.id < NumUsers
  /\ Len(call.result) >= 1
  /\ \E i \in Items : Entry(sparse_user_item, call.id, i) # 0
  /\ \E i \in Items : Entry(sparse_user_item, call.id, i) = 0

\* the score of item i for the query: the dot product with the addressed
\* user's row, or the cosine with the addressed item's row
ScoreOf(i) ==
  IF call.op = "recommend"
  THEN dot32[dot(model.item_factors[i], model.user_factors[PyIndex(call.id, NumUsers)])]
  ELSE LET y == model.item_factors[i]
           x == model.item_factors[call.id]
       IN  cosine32[<<dot(y, x), norm2(y), norm2(x)>>]

\* the items a query may return: for recommend those not stored in the row
Candidates ==
  IF call.op = "recommend"
  THEN Items \ liked_items(sparse_user_item, PyIndex(call.id, NumUsers))
  ELSE Items

Descending ==
  \A a, b \in 1..Len(call.result) :
     a < b => ~Less(call.result[a].score, call.result[b].score)

TiesAscending ==
  \A a, b \in 1..Len(call.result) :
     (a < b /\ Same(call.result[a].score, call.result[b].score))
        => call.result[a].item < call.result[b].item

NoBetterLeftOut ==
  \A i \in Candidates \ Returned : \A k \in 1..Len(call.result) :
     ~Less(call.result[k].score, call.scores[i])

NoEqualSmallerLeftOut ==
  \A i \in Candidates \ Returned : \A k \in 1..Len(call.result) :
     ~(Same(call.result[k].score, call.scores[i]) /\ i < call.result[k].item)

\* C3 as claimed: results are in non-increasing score order with equal scores
\* in ascending item id order, and no item left out has a higher score than a
\* returned one, or an equal score and a smaller id.
C3_Original ==
  (RecOk \/ SimOk) =>
     Descending /\ TiesAscending /\ NoBetterLeftOut /\ NoEqualSmallerLeftOut

FullSort ==
  call.op = "recommend"
  /\ call.N + Cardinality(liked_items(sparse_user_item, PyIndex(call.id, NumUsers))) >= NumItems

\* C3 as amended: every returned item carries its own score (the dot
\* product, or the cosine as float32 computes it); results are in
\* non-increasing order of the score and no candidate left out has a higher
\* score than a returned item; equal scores are in ascending id order only
\* when recommend sorts the whole item list (k plus the number of stored
\* entries of the row reaches num_items).
C3_OrderedTopK ==
  (RecOk \/ SimOk) =>
     /\ \A i \in Items : call.scores[i] = ScoreOf(i)
     /\ \A k \in 1..Len(call.result) :
          call.result[k].score = call.scores[call.result[k].item]
     /\ Descending
     /\ NoBetterLeftOut
     /\ (RecOk /\ FullSort) => (TiesAscending /\ NoEqualSmallerLeftOut)

\* C3 witness: recommend went through the partial selection for a user whose
\* stored item scores above a candidate, returned the better of the two
\* candidates and left the other out.
C3_Witness ==
  /\ RecOk /\ ~FullSort
  /\ Len(call.result) = 1
  /\ \E i \in Candidates \ Returned : Less(call.scores[i], call.result[1].score)
  /\ \E i \in Items \ Candidates : \E j \in Candidates \ Returned :
       Less(call.scores[j], call.scores[i])

\* C4 as claimed: recommend(u, k) returns exactly min(k, c) distinct items,
\* c the number of items with no non-zero entry in row u.
C4_Original ==
  (RecOk /\ 0 <= call.id /\ call.id < NumUsers) =>
     /\ Distinct
     /\ Len(call.result)
          = Min(call.N, Cardinality({i \in Items : Entry(sparse_user_item, call.id, i) = 0}))

Unstored(u) == {i \in Items : <<u, i>> \notin DOMAIN sparse_user_item.stored}

\* C4 as amended: recommend(u, k) returns exactly min(k, c) distinct items,
\* c the number of items with no stored entry in row u (a row whose signal is
\* 0 still stores an entry, and its item is not a candidate); with k >= c the
\* result is all c candidates, no error and no padding.
C4_CountOfCandidates ==
  (RecOk /\ 0 <= call.id /\ call.id < NumUsers) =>
     /\ Distinct
     /\ Returned \subseteq Unstored(call.id)
     /\ Len(call.result) = Min(call.N, Cardinality(Unstored(call.id)))
     /\ call.N >= Cardinality(Unstored(call.id)) => Returned = Unstored(call.id)

\* C4 witness: k exceeds the number of candidates of a user who has exactly
\* one item left, and that item is the result.
C4_Witness ==
  /\ RecOk /\ 0 <= call.id /\ call.id < NumUsers
  /\ Cardinality(Unstored(call.id)) = 1
  /\ call.N > 1
  /\ Len(call.result) = 1
  /\ Returned = Unstored(call.id)

\* within float32 rounding of 1.0: at most 2^-22 away
NearOne(v) ==
  /\ v.s = 1
  /\ \/ v.e = -23 /\ v.m - 2^23 <= 2
     \/ v.e = -24 /\ 2^24 - v.m <= 4

\* C2: whenever model.similar_items(x, k) is called with x in range and
\* k >= 1, it returns, and the first element returned is x itself with a
\* score of 1.0 (to within float32 rounding).
C2_SelfFirst ==
  (call.op = "similar_items" /\ call.stage # "headline"
     /\ 0 <= call.id /\ call.id < NumItems /\ call.N >= 1) =>
     /\ call.outcome = "ok"
     /\ call.result[1].item = call.id
     /\ NearOne(call.result[1].score)

\* C2 witness: model.similar_items was called for an item in range that has
\* a headline, with k >= 1 larger than the number of items, and raised.
C2_Witness ==
  /\ call.op = "similar_items" /\ call.stage = "call"
  /\ 0 <= call.id /\ call.id < NumItems
  /\ has_headline(headlines, call.id)
  /\ call.N >= 1 /\ call.N > NumItems
  /\ call.outcome = "ValueError"
  /\ call.result = <<>>

\* C6: a query whose id is outside 0..n-1 (n the number of rows of the
\* factor matrix it addresses) fails; it never returns a result.
C6_OutOfRangeFails ==
  /\ (call.op = "similar_items" /\ (call.id < 0 \/ call.id >= NumItems))
        => call.outcome # "ok"
  /\ (call.op = "recommend" /\ (call.id < 0 \/ call.id >= NumUsers))
        => call.outcome # "ok"
=============================================================================
